---- MODULE Spec2Model ----
(***************************************************************************)
(* Model of the repository checker (checker/checker.go): LoadIndex with    *)
(* its index workers, the pack verifier (Packs / packIDTester) and the     *)
(* structure verifier (Structure / filterTrees / loadTreeWorker /          *)
(* checkTreeWorker / checkTree), with UnusedBlobs and OrphanedPacks; and   *)
(* of Collect (helpers.go).                                                *)
(*                                                                         *)
(* Every goroutine is a process whose position is one of its blocking      *)
(* points (a select or a channel operation).  The channels are unbuffered, *)
(* so a send and the matching receive are one joint step of the two        *)
(* processes.  Local, non-blocking code between two blocking points is     *)
(* part of the step that precedes it.                                      *)
(***************************************************************************)
EXTENDS Integers, Sequences, FiniteSets, TLC

\* Size of the worker pools.  The source uses 40 (checker.go:50); the model
\* is checked with small pools.
defaultParallelism == 2

\* Reference counters saturate at this value.  The code only ever tests a
\* counter for "== 0" and "> 0", so larger values are indistinguishable.
MaxRefCount == 3

Workers == 1..defaultParallelism

NoID == "nil"

Min(a, b) == IF a < b THEN a ELSE b

Range(s) == {s[i] : i \in 1..Len(s)}

RECURSIVE Flatten(_)
Flatten(ss) == IF ss = <<>> THEN <<>> ELSE Head(ss) \o Flatten(Tail(ss))

(***************************************************************************)
(* Repositories.                                                           *)
(***************************************************************************)

\* restic.Node, as far as the checker reads it: Type, Content, Subtree.
FileNode(content) == [Type |-> "file", Content |-> content, Subtree |-> NoID]
DirNode(subtree) == [Type |-> "dir", Content |-> <<>>, Subtree |-> subtree]
OtherNode == [Type |-> "symlink", Content |-> <<>>, Subtree |-> NoID]

\* A snapshot file: it loads or not, and names a root tree or not.
Snapshot(tree) == [loads |-> TRUE, Tree |-> tree]
BrokenSnapshot == [loads |-> FALSE, Tree |-> NoID]

\* An index entry (repository.Index.Each yields ID and PackID).
Blob(id, pack) == [ID |-> id, PackID |-> pack]

EmptyMap == [x \in {} |-> 0]

\* A repository: its snapshot files, the decodable tree blobs, the index
\* files, the pack files the backend lists, the packs for which the
\* backend's Test fails with an error, and the index files that are not
\* plain new-format files (indexFaults, see IndexFile below).
Repo(snapshots, trees, indexFiles, dataFiles, testErr) ==
    [snapshots |-> snapshots, trees |-> trees, indexFiles |-> indexFiles,
     dataFiles |-> dataFiles, testErr |-> testErr, indexFaults |-> EmptyMap]

OneIndex(entries) == "I1" :> entries

\* Two snapshots with the same root T1, T1 has the subtree T2; D3 is unused.
RepoDiamond ==
    Repo("S1" :> Snapshot("T1") @@ "S2" :> Snapshot("T1"),
         "T1" :> <<FileNode(<<"D1">>), DirNode("T2")>>
           @@ "T2" :> <<FileNode(<<"D2">>)>>,
         "I1" :> {Blob("T1", "P1"), Blob("D1", "P1")}
           @@ "I2" :> {Blob("T2", "P2"), Blob("D2", "P2"), Blob("D3", "P2")},
         {"P1", "P2"}, {})

\* Two roots T1 and T3 that share the subtree T2; D1 occurs in T2 and T3.
RepoShared ==
    Repo("S1" :> Snapshot("T1") @@ "S2" :> Snapshot("T3"),
         "T1" :> <<DirNode("T2")>>
           @@ "T2" :> <<FileNode(<<"D1">>)>>
           @@ "T3" :> <<DirNode("T2"), FileNode(<<"D1">>)>>
           @@ "T4" :> <<FileNode(<<"D3">>)>>,
         OneIndex({Blob("T1", "P1"), Blob("T2", "P1"), Blob("T3", "P1"),
                   Blob("T4", "P1"), Blob("D1", "P1"), Blob("D3", "P1")}),
         {"P1"}, {})

\* The content blob DX of T1 is in no index.
RepoMissingBlob ==
    Repo("S1" :> Snapshot("T1"),
         "T1" :> <<FileNode(<<"D1", "DX">>), DirNode("T2")>>
           @@ "T2" :> <<FileNode(<<"D1">>)>>,
         OneIndex({Blob("T1", "P1"), Blob("T2", "P1"), Blob("D1", "P1")}),
         {"P1"}, {})

\* Node 2 of T1 is a dir without subtree.
RepoDirNoSubtree ==
    Repo("S1" :> Snapshot("T1"),
         "T1" :> <<FileNode(<<"D1">>), OtherNode, DirNode(NoID)>>,
         OneIndex({Blob("T1", "P1"), Blob("D1", "P1")}),
         {"P1"}, {})

\* Three trees, two of them with errors.
RepoManyErrors ==
    Repo("S1" :> Snapshot("T1"),
         "T1" :> <<DirNode(NoID), DirNode("T2"), DirNode("T3")>>
           @@ "T2" :> <<FileNode(<<"DX">>)>>
           @@ "T3" :> <<FileNode(<<"D1">>)>>,
         OneIndex({Blob("T1", "P1"), Blob("T2", "P1"), Blob("T3", "P1"),
                   Blob("D1", "P1")}),
         {"P1"}, {})

\* T1 -> T2 -> T1.
RepoCycle ==
    Repo("S1" :> Snapshot("T1"),
         "T1" :> <<DirNode("T2")>>
           @@ "T2" :> <<DirNode("T1"), FileNode(<<"D1">>)>>,
         OneIndex({Blob("T1", "P1"), Blob("T2", "P1"), Blob("D1", "P1")}),
         {"P1"}, {})

\* T1 is its own subtree.
RepoSelfCycle ==
    Repo("S1" :> Snapshot("T1"),
         "T1" :> <<DirNode("T1")>>,
         OneIndex({Blob("T1", "P1")}),
         {"P1"}, {})

\* One snapshot does not load, one has no tree, one is fine.
RepoBadSnapshots ==
    Repo("S1" :> BrokenSnapshot @@ "S2" :> Snapshot(NoID) @@ "S3" :> Snapshot("T1"),
         "T1" :> <<FileNode(<<"D1">>)>>,
         OneIndex({Blob("T1", "P1"), Blob("D1", "P1"), Blob("D2", "P1")}),
         {"P1"}, {})

\* No indexes, no snapshots, no packs.
RepoEmpty == Repo(EmptyMap, EmptyMap, EmptyMap, {}, {})

\* P1 is present, P2 is absent, the test of P3 fails; P4 and P5 are in no
\* index.
RepoPacks ==
    Repo(EmptyMap, EmptyMap,
         "I1" :> {Blob("D1", "P1"), Blob("D2", "P2")}
           @@ "I2" :> {Blob("D3", "P3"), Blob("D4", "P1")},
         {"P1", "P3", "P4", "P5"}, {"P3"})

\* One more referenced pack than there are workers, none of them on the
\* backend.
PackNames == <<"P1", "P2", "P3", "P4", "P5", "P6">>

RepoPacksGone ==
    Repo(EmptyMap, EmptyMap,
         OneIndex({Blob(PackNames[i], PackNames[i]) :
                      i \in 1..(defaultParallelism + 1)}),
         {}, {})

PacksRepos == {RepoPacks, RepoPacksGone, RepoDiamond, RepoEmpty}

StructureRepos ==
    {RepoDiamond, RepoShared, RepoMissingBlob, RepoDirNoSubtree,
     RepoManyErrors, RepoCycle, RepoBadSnapshots, RepoEmpty}

(***************************************************************************)
(* State.                                                                  *)
(***************************************************************************)
VARIABLES
    repo,           \* the repository on the backend
    packs,          \* Checker.packs
    blobs,          \* Checker.blobs
    blobRefs,       \* Checker.blobRefs.M
    blobRefsMu,     \* Checker.blobRefs.Mutex: 0, or the checker holding it
    indexes,        \* Checker.indexes
    masterIndex,    \* Checker.masterIndex
    repoIndex,      \* the index installed with repo.SetIndex
    orphanedPacks,  \* Checker.orphanedPacks
    li,             \* LoadIndex: position, FilesInParallel and its workers
    done,           \* the caller's done channel is closed
    errChan,        \* the errors the caller has received
    errChanClosed,  \* errChan is closed
    st,             \* Structure: position, snapshots to load, trees, errs
    flt,            \* filterTrees: its local variables
    ld,             \* loadTreeWorker w: position and job
    ck,             \* checkTreeWorker w: position, job, checkTree's locals
    checked,        \* history: number of checkTree calls per tree ID
    panicked,       \* the process died of a nil dereference
    pk,             \* Packs: position, seenPacks, IDs still to feed or list
    tst,            \* packIDTester w: position and the error it holds
    probed,         \* history: number of Backend().Test calls per pack ID
    cl              \* Collect and the goroutine that feeds its channel

vars == <<repo, packs, blobs, blobRefs, blobRefsMu, indexes, masterIndex,
          repoIndex, orphanedPacks, li, done, errChan,
          errChanClosed, st, flt, ld, ck, checked, panicked, pk, tst, probed,
          cl>>

\* Reading a Go map: a missing key yields the zero value.
Get(m, k) == IF k \in DOMAIN m THEN m[k] ELSE 0

Put(m, k, v) == [x \in DOMAIN m \cup {k} |-> IF x = k THEN v ELSE m[x]]

\* c.blobRefs.M[id]++
Incr(m, k) == Put(m, k, Min(Get(m, k) + 1, MaxRefCount))

NoJob == [ID |-> NoID, error |-> FALSE, Tree |-> <<>>]

FilterIdle ==
    [pc |-> "idle", backlog |-> <<>>, loadCh |-> FALSE, outCh |-> FALSE,
     inCh |-> FALSE, job |-> NoJob, nextTreeID |-> NoID,
     outstandingLoadTreeJobs |-> 0]

LoaderIdle == [pc |-> "idle", job |-> NoJob]

CheckerIdle ==
    [pc |-> "idle", job |-> NoJob, blobs |-> <<>>, errs |-> <<>>,
     treeError |-> <<>>]

PacksIdle ==
    [pc |-> "idle", seenPacks |-> {}, feed |-> {}, list |-> {},
     orphan |-> NoID]

TesterIdle == [pc |-> "idle", err |-> NoID]

StructureIdle == [pc |-> "idle", pending |-> {}, trees |-> <<>>, errs |-> <<>>]

LoadIndexIdle ==
    [pc |-> "idle", runs |-> 0, todo |-> {}, running |-> {},
     sending |-> EmptyMap, cancel |-> FALSE, perr |-> "", failed |-> {},
     converted |-> EmptyMap, listed |-> {}, first |-> <<>>]

CollectIdle ==
    [pc |-> "idle", ids |-> <<>>, sent |-> 0, closed |-> FALSE, list |-> <<>>]

\* New(repo)
New(r) ==
    /\ repo = r
    /\ packs = {}
    /\ blobs = {}
    /\ blobRefs = EmptyMap
    /\ blobRefsMu = 0
    /\ indexes = EmptyMap
    /\ masterIndex = {}
    /\ repoIndex = {}
    /\ orphanedPacks = <<>>
    /\ li = LoadIndexIdle
    /\ done = FALSE
    /\ errChan = <<>>
    /\ errChanClosed = FALSE
    /\ st = StructureIdle
    /\ flt = FilterIdle
    /\ ld = [w \in Workers |-> LoaderIdle]
    /\ ck = [w \in Workers |-> CheckerIdle]
    /\ checked = EmptyMap
    /\ panicked = FALSE
    /\ pk = PacksIdle
    /\ tst = [w \in Workers |-> TesterIdle]
    /\ probed = EmptyMap
    /\ cl = CollectIdle

InitStructure == \E r \in StructureRepos : New(r)

(***************************************************************************)
(* LoadIndex.                                                              *)
(***************************************************************************)
indexVars == <<packs, blobs, indexes, masterIndex, repoIndex, li>>
callerVars == <<done, errChan, errChanClosed>>
pipelineVars == <<flt, ld, ck, checked, blobRefsMu, panicked>>
structureVars == <<st, pipelineVars>>
packsVars == <<pk, tst, probed, orphanedPacks>>

\* a consumer that installs the last index instead of merging
ProcessIndexNoMerge(id, idx) ==
    /\ indexes' = Put(indexes, id, idx)
    /\ masterIndex' = idx
    /\ packs' = packs \cup {b.PackID : b \in idx}
    /\ blobs' = blobs \cup {b.ID : b \in idx}
    /\ blobRefs' = [x \in DOMAIN blobRefs \cup {b.ID : b \in idx} |->
                       IF x \in {b.ID : b \in idx} THEN 0 ELSE blobRefs[x]]

\* The loop body of the consumer for one delivered index: c.indexes[id],
\* c.masterIndex.Merge, and c.packs, c.blobs, c.blobRefs.M[blob.ID] = 0 for
\* each blob of the index.
ProcessIndex(id, idx) ==
    /\ indexes' = Put(indexes, id, idx)
    /\ masterIndex' = masterIndex \cup idx
    /\ packs' = packs \cup {b.PackID : b \in idx}
    /\ blobs' = blobs \cup {b.ID : b \in idx}
    /\ blobRefs' = [x \in DOMAIN blobRefs \cup {b.ID : b \in idx} |->
                       IF x \in {b.ID : b \in idx} THEN 0 ELSE blobRefs[x]]

\* An index file that is not a plain new-format file: the format the decoder
\* finds ("new", "old", or "broken" for any other failure), whether
\* ConvertIndex succeeds on it, and the format of the file that a successful
\* conversion writes.
IndexFile(format, convert, reload) ==
    [format |-> format, convert |-> convert, reload |-> reload]

GoodIndex == IndexFile("new", TRUE, "new")

WithIndexFaults(r, faults) == [r EXCEPT !.indexFaults = faults]

IndexFault(r, id) ==
    IF id \in DOMAIN r.indexFaults THEN r.indexFaults[id] ELSE GoodIndex

ErrOldIndexFormat == "index has old format"

\* repository.LoadIndexWithDecoder(repo, id, DecodeIndex): the error, ""
\* for none.
LoadIndexWithDecoder(r, id) ==
    CASE IndexFault(r, id).format = "new" -> ""
      [] IndexFault(r, id).format = "old" -> ErrOldIndexFormat
      [] OTHER -> "load failed"

\* The ID of the file that repository.ConvertIndex writes in place of id.
NewID(id) ==
    CASE id = "I1" -> "J1"
      [] id = "I2" -> "J2"
      [] id = "I3" -> "J3"
      [] OTHER -> "J4"

\* repository.ConvertIndex(repo, id): the repository afterwards.  The new
\* file has the entries of the old one, which is removed.
ConvertIndex(r, id) ==
    [r EXCEPT
        !.indexFiles =
            [x \in (DOMAIN r.indexFiles \ {id}) \cup {NewID(id)} |->
                IF x = NewID(id) THEN r.indexFiles[id] ELSE r.indexFiles[x]],
        !.indexFaults =
            Put(r.indexFaults, NewID(id),
                IndexFile(IndexFault(r, id).reload, TRUE, "new"))]

\* a worker that does not look at the error of the reload
IndexWorkerNoReloadCheck(r, id) ==
    IF LoadIndexWithDecoder(r, id) # ErrOldIndexFormat
    THEN [repo |-> r, ID |-> id, err |-> LoadIndexWithDecoder(r, id),
          converted |-> FALSE]
    ELSE IF ~IndexFault(r, id).convert
    THEN [repo |-> r, ID |-> id, err |-> "convert failed",
          converted |-> TRUE]
    ELSE [repo |-> ConvertIndex(r, id), ID |-> NewID(id), err |-> "",
          converted |-> TRUE]

\* The worker of LoadIndex for index file id, up to its select: the
\* repository afterwards, the ID it delivers, its error ("" for none) and
\* whether it called ConvertIndex.
IndexWorker(r, id) ==
    IF LoadIndexWithDecoder(r, id) # ErrOldIndexFormat
    THEN [repo |-> r, ID |-> id, err |-> LoadIndexWithDecoder(r, id),
          converted |-> FALSE]
    ELSE IF ~IndexFault(r, id).convert
    THEN [repo |-> r, ID |-> id, err |-> "convert failed",
          converted |-> TRUE]
    ELSE [repo |-> ConvertIndex(r, id), ID |-> NewID(id),
          err |-> LoadIndexWithDecoder(ConvertIndex(r, id), NewID(id)),
          converted |-> TRUE]

\* LoadIndex starts the goroutine that runs FilesInParallel over the index
\* files and begins to receive from indexCh.
LoadIndexCall ==
    /\ li.pc = "idle"
    /\ li' = [LoadIndexIdle EXCEPT !.pc = "loading", !.runs = 1,
                                   !.todo = DOMAIN repo.indexFiles,
                                   !.listed = DOMAIN repo.indexFiles]
    /\ UNCHANGED <<cl, repo, packs, blobs, blobRefs, indexes, masterIndex,
                   repoIndex, callerVars, structureVars, packsVars>>

\* LoadIndex is called a second time on the same Checker, after Packs and
\* Structure have returned.
LoadIndexAgain ==
    /\ li.pc = "returned"
    /\ li.runs = 1
    /\ pk.pc = "returned"
    /\ st.pc = "returned"
    /\ li' = [LoadIndexIdle EXCEPT !.pc = "loading", !.runs = 2,
                                   !.todo = DOMAIN repo.indexFiles,
                                   !.listed = DOMAIN repo.indexFiles,
                                   !.first = li.first]
    /\ UNCHANGED <<cl, repo, packs, blobs, blobRefs, indexes, masterIndex,
                   repoIndex, callerVars, structureVars, packsVars>>

\* FilesInParallel hands the next listed file to a free executor, unless a
\* worker has failed.
IndexDispatch(id) ==
    /\ li.pc = "loading"
    /\ id \in li.todo
    /\ ~li.cancel
    /\ Cardinality(li.running \cup DOMAIN li.sending) < defaultParallelism
    /\ li' = [li EXCEPT !.todo = @ \ {id}, !.running = @ \cup {id}]
    /\ UNCHANGED <<cl, repo, packs, blobs, blobRefs, indexes, masterIndex,
                   repoIndex, callerVars, structureVars, packsVars>>

\* The worker loads the index, converting it first if it has the old format.
\* With an error it returns, which makes FilesInParallel keep the first
\* error and close the done channel of its workers; else it goes to its
\* select.
IndexWorkerRun(id) ==
    /\ li.pc = "loading"
    /\ id \in li.running
    /\ LET res == IndexWorker(repo, id)
           conv == IF res.converted
                   THEN Put(li.converted, id, Get(li.converted, id) + 1)
                   ELSE li.converted
       IN /\ repo' = res.repo
          /\ li' = IF res.err # ""
                   THEN [li EXCEPT !.running = @ \ {id},
                                   !.failed = @ \cup {id},
                                   !.converted = conv,
                                   !.cancel = TRUE,
                                   !.perr = IF li.perr = "" THEN res.err
                                            ELSE li.perr]
                   ELSE [li EXCEPT !.running = @ \ {id},
                                   !.converted = conv,
                                   !.sending =
                                       Put(@, id,
                                           [ID |-> res.ID,
                                            Index |->
                                              res.repo.indexFiles[res.ID]])]
    /\ UNCHANGED <<cl, packs, blobs, blobRefs, indexes, masterIndex,
                   repoIndex, callerVars, structureVars, packsVars>>

\* case indexCh <- indexRes{...}, received by the consumer, which runs its
\* loop body.
IndexDeliver(id) ==
    /\ li.pc = "loading"
    /\ id \in DOMAIN li.sending
    /\ ProcessIndex(li.sending[id].ID, li.sending[id].Index)
    /\ li' = [li EXCEPT !.sending = [x \in DOMAIN @ \ {id} |-> @[x]]]
    /\ UNCHANGED <<cl, repo, repoIndex, callerVars, structureVars, packsVars>>

\* case <-done: the worker returns without delivering.
IndexWorkerDone(id) ==
    /\ li.pc = "loading"
    /\ id \in DOMAIN li.sending
    /\ li.cancel
    /\ li' = [li EXCEPT !.sending = [x \in DOMAIN @ \ {id} |-> @[x]]]
    /\ UNCHANGED <<cl, repo, packs, blobs, blobRefs, indexes, masterIndex,
                   repoIndex, callerVars, structureVars, packsVars>>

\* FilesInParallel has returned, perr is set and indexCh is closed: the
\* consumer's loop ends, it installs the master index and returns perr.
LoadIndexReturn ==
    /\ li.pc = "loading"
    /\ li.running = {}
    /\ li.sending = EmptyMap
    /\ li.todo = {} \/ li.cancel
    /\ repoIndex' = masterIndex
    /\ li' = [li EXCEPT !.pc = "returned",
                        !.first = IF li.runs = 1
                                  THEN <<packs, blobs, blobRefs>> ELSE @]
    /\ UNCHANGED <<cl, repo, packs, blobs, blobRefs, indexes, masterIndex,
                   callerVars, structureVars, packsVars>>

IndexIDs == {"I1", "I2", "I3", "I4"}

\* The steps of a LoadIndex in which no worker fails
LoadIndex ==
    \/ LoadIndexCall
    \/ \E id \in IndexIDs : IndexDispatch(id)
    \/ \E id \in IndexIDs : IndexWorkerRun(id)
    \/ \E id \in IndexIDs : IndexDeliver(id)
    \/ LoadIndexReturn

\* The steps that a failed worker enables
LoadIndexCancelled == \E id \in IndexIDs : IndexWorkerDone(id)

\* I2 has the old format and converts.
RepoIndexOld ==
    WithIndexFaults(
        Repo(EmptyMap, EmptyMap,
             "I1" :> {Blob("D1", "P1"), Blob("D2", "P2")}
               @@ "I2" :> {Blob("D3", "P2"), Blob("D4", "P3")}
               @@ "I3" :> {Blob("D1", "P1"), Blob("D5", "P3")},
             {"P1", "P2", "P3"}, {}),
        "I2" :> IndexFile("old", TRUE, "new"))

\* I2 cannot be loaded.
RepoIndexBroken ==
    WithIndexFaults(
        Repo(EmptyMap, EmptyMap,
             "I1" :> {Blob("D1", "P1")} @@ "I2" :> {Blob("D2", "P1")}
               @@ "I3" :> {Blob("D3", "P2")} @@ "I4" :> {Blob("D4", "P2")},
             {"P1", "P2"}, {}),
        "I2" :> IndexFile("broken", TRUE, "new"))

\* I1 has the old format and its conversion fails; I3 converts.
RepoIndexConvertFails ==
    WithIndexFaults(
        Repo(EmptyMap, EmptyMap,
             "I1" :> {Blob("D1", "P1")} @@ "I2" :> {Blob("D2", "P1")}
               @@ "I3" :> {Blob("D3", "P2")},
             {"P1", "P2"}, {}),
        "I1" :> IndexFile("old", FALSE, "new")
          @@ "I3" :> IndexFile("old", TRUE, "new"))

\* I1 still has the old format after its conversion, the file that the
\* conversion of I2 leaves cannot be loaded.
RepoIndexReloadFails ==
    WithIndexFaults(
        Repo(EmptyMap, EmptyMap,
             "I1" :> {Blob("D1", "P1")} @@ "I2" :> {Blob("D2", "P1")}
               @@ "I3" :> {Blob("D3", "P2")},
             {"P1", "P2"}, {}),
        "I1" :> IndexFile("old", TRUE, "old")
          @@ "I2" :> IndexFile("old", TRUE, "broken"))

IndexRepos ==
    {RepoIndexOld, RepoIndexBroken, RepoIndexConvertFails,
     RepoIndexReloadFails, RepoDiamond, RepoEmpty}

InitLoadIndex == \E r \in IndexRepos : New(r)

\* LoadIndex on a fresh Checker.
NextLoadIndex == LoadIndex \/ LoadIndexCancelled

SpecLoadIndex == InitLoadIndex /\ [][NextLoadIndex]_vars

\* FilesInParallel, its workers and the consumer run.
FairSpecLoadIndex ==
    SpecLoadIndex /\ WF_vars(LoadIndex) /\ WF_vars(LoadIndexCancelled)

(***************************************************************************)
(* Structure: snapshot roots.                                              *)
(***************************************************************************)

\* The values sent on errChan.  A plain error from a snapshot, a PackError
\* and a TreeError are told apart by the field type.
PlainError(id, err) ==
    [type |-> "error", ID |-> id, Orphaned |-> FALSE, Err |-> err,
     Errors |-> <<>>]
PackError(id, orphaned, err) ==
    [type |-> "PackError", ID |-> id, Orphaned |-> orphaned, Err |-> err,
     Errors |-> <<>>]
TreeError(id, errors) ==
    [type |-> "TreeError", ID |-> id, Orphaned |-> FALSE, Err |-> "",
     Errors |-> errors]

\* checker.Error; N is the node index of a "node N is dir but has no
\* subtree" error and -1 otherwise.
Error(treeID, blobID, err, n) ==
    [TreeID |-> treeID, BlobID |-> blobID, Err |-> err, N |-> n]

\* loadTreeFromSnapshot
\* a loadTreeFromSnapshot that does not test sn.Tree for nil
LoadTreeFromSnapshotAnyRoot(r, id) ==
    IF ~r.snapshots[id].loads
    THEN [Tree |-> NoID, err |-> "load snapshot failed"]
    ELSE [Tree |-> r.snapshots[id].Tree, err |-> ""]

LoadTreeFromSnapshot(r, id) ==
    IF ~r.snapshots[id].loads
    THEN [Tree |-> NoID, err |-> "load snapshot failed"]
    ELSE IF r.snapshots[id].Tree = NoID
    THEN [Tree |-> NoID, err |-> "snapshot has no tree"]
    ELSE [Tree |-> r.snapshots[id].Tree, err |-> ""]

StructureCall ==
    /\ li.pc = "returned"
    /\ st.pc = "idle"
    /\ st' = [st EXCEPT !.pc = "snapshots", !.pending = DOMAIN repo.snapshots]
    /\ UNCHANGED <<cl, repo, indexVars, blobRefs, callerVars, pipelineVars,
                   packsVars>>

\* snapshotWorker, run once for every snapshot file in the backend's listing
SnapshotWorker(id) ==
    /\ st.pc = "snapshots"
    /\ id \in st.pending
    /\ LET res == LoadTreeFromSnapshot(repo, id)
       IN st' = IF res.err # ""
                THEN [st EXCEPT !.pending = @ \ {id},
                                !.errs = Append(@, PlainError(id, res.err))]
                ELSE [st EXCEPT !.pending = @ \ {id},
                                !.trees = Append(@, res.Tree)]
    /\ UNCHANGED <<cl, repo, indexVars, blobRefs, callerVars, pipelineVars,
                   packsVars>>

\* loadSnapshotTreeIDs returns
StructureLoaded ==
    /\ st.pc = "snapshots"
    /\ st.pending = {}
    /\ st' = [st EXCEPT !.pc = "errs"]
    /\ UNCHANGED <<cl, repo, indexVars, blobRefs, callerVars, pipelineVars,
                   packsVars>>

\* case errChan <- err, received by the caller
StructureEmit ==
    /\ st.pc = "errs"
    /\ st.errs # <<>>
    /\ errChan' = Append(errChan, Head(st.errs))
    /\ st' = [st EXCEPT !.errs = Tail(@)]
    /\ UNCHANGED <<cl, repo, indexVars, blobRefs, done, errChanClosed,
                   pipelineVars, packsVars>>

\* case <-done: return
StructureEmitDone ==
    /\ st.pc = "errs"
    /\ st.errs # <<>>
    /\ done
    /\ st' = [st EXCEPT !.pc = "returned"]
    /\ errChanClosed' = TRUE
    /\ UNCHANGED <<cl, repo, indexVars, blobRefs, done, errChan,
                   pipelineVars, packsVars>>

(***************************************************************************)
(* Structure: the pipeline filterTrees -> loadTreeWorker -> filterTrees   *)
(* -> checkTreeWorker.                                                     *)
(***************************************************************************)

\* Tree.Subtrees(): the subtree IDs of the dir nodes, in node order.
Subtrees(tree) ==
    Flatten([i \in 1..Len(tree) |->
                IF tree[i].Type = "dir" /\ tree[i].Subtree # NoID
                THEN <<tree[i].Subtree>> ELSE <<>>])

\* restic.LoadTree(repo, id): the tree blob is found through the installed
\* index and decoded.
LoadTree(r, index, id) ==
    IF id \in {b.ID : b \in index} /\ id \in DOMAIN r.trees
    THEN [ID |-> id, error |-> FALSE, Tree |-> r.trees[id]]
    ELSE [ID |-> id, error |-> TRUE, Tree |-> <<>>]

\* The head of the loop of filterTrees, up to the select: take the next ID
\* off the backlog, or return when nothing is left to do.
FilterTop(f) ==
    LET g == IF ~f.loadCh /\ Len(f.backlog) > 0
             THEN [f EXCEPT !.loadCh = TRUE, !.nextTreeID = Head(f.backlog),
                            !.backlog = Tail(f.backlog)]
             ELSE f
    IN IF ~g.loadCh /\ ~g.outCh /\ g.outstandingLoadTreeJobs = 0
       THEN [g EXCEPT !.pc = "returned"]
       ELSE g

\* The errors were emitted: create the channels, start the workers and call
\* filterTrees(trees, ...).
StructureStart ==
    /\ st.pc = "errs"
    /\ st.errs = <<>>
    /\ st' = [st EXCEPT !.pc = "filter"]
    /\ ld' = [w \in Workers |-> [LoaderIdle EXCEPT !.pc = "recv"]]
    /\ ck' = [w \in Workers |-> [CheckerIdle EXCEPT !.pc = "recv"]]
    /\ flt' = FilterTop([FilterIdle EXCEPT !.pc = "select", !.inCh = TRUE,
                                          !.backlog = st.trees])
    /\ UNCHANGED <<cl, repo, indexVars, blobRefs, callerVars, checked, blobRefsMu,
                   panicked, packsVars>>

\* filterTrees: case <-done
FilterDone ==
    /\ flt.pc = "select"
    /\ done
    /\ flt' = [flt EXCEPT !.pc = "returned"]
    /\ UNCHANGED <<cl, repo, indexVars, blobRefs, callerVars, st, ld, ck, checked,
                   blobRefsMu, panicked, packsVars>>

\* filterTrees: case loadCh <- nextTreeID, received by loader w, which loads
\* the tree.
FilterSendID(w) ==
    /\ flt.pc = "select"
    /\ flt.loadCh
    /\ ld[w].pc = "recv"
    /\ flt' = FilterTop([flt EXCEPT !.outstandingLoadTreeJobs = @ + 1,
                                    !.loadCh = FALSE])
    /\ ld' = [ld EXCEPT ![w] = [pc |-> "send",
                                job |-> LoadTree(repo, repoIndex,
                                                 flt.nextTreeID)]]
    /\ UNCHANGED <<cl, repo, indexVars, blobRefs, callerVars, st, ck, checked,
                   blobRefsMu, panicked, packsVars>>

\* filterTrees: case j, ok := <-inCh, sent by loader w (case outCh <- job).
\* A job whose load failed has a nil Tree, and j.Tree.Subtrees() is a call
\* on a nil pointer: the dereference panics, or else Subtrees puts up with
\* a nil receiver and yields nothing.
FilterRecvJob(w) ==
    /\ flt.pc = "select"
    /\ flt.inCh
    /\ ld[w].pc = "send"
    /\ ld' = [ld EXCEPT ![w] = [pc |-> "recv", job |-> NoJob]]
    /\ \E nilReceiverPanics \in BOOLEAN :
          IF ld[w].job.error /\ nilReceiverPanics
          THEN /\ panicked' = TRUE
               /\ flt' = [flt EXCEPT !.outstandingLoadTreeJobs = @ - 1]
          ELSE /\ panicked' = panicked
               /\ flt' = FilterTop([flt EXCEPT
                             !.outstandingLoadTreeJobs = @ - 1,
                             !.backlog = @ \o Subtrees(ld[w].job.Tree),
                             !.job = ld[w].job,
                             !.outCh = TRUE,
                             !.inCh = FALSE])
    /\ UNCHANGED <<cl, repo, indexVars, blobRefs, callerVars, st, ck, checked,
                   blobRefsMu, packsVars>>

\* a filter that goes on offering the job it has handed over
FilterSendJobKeepsJob(w) ==
    /\ flt.pc = "select"
    /\ flt.outCh
    /\ ck[w].pc = "recv"
    /\ flt' = FilterTop([flt EXCEPT !.inCh = TRUE])
    /\ ck' = [ck EXCEPT ![w] = [@ EXCEPT !.pc = "lockTree", !.job = flt.job]]
    /\ UNCHANGED <<cl, repo, indexVars, blobRefs, callerVars, st, ld, checked,
                   blobRefsMu, panicked, packsVars>>

\* filterTrees: case outCh <- job, received by checker w, which goes on to
\* c.blobRefs.Lock().
FilterSendJob(w) ==
    /\ flt.pc = "select"
    /\ flt.outCh
    /\ ck[w].pc = "recv"
    /\ flt' = FilterTop([flt EXCEPT !.outCh = FALSE, !.inCh = TRUE])
    /\ ck' = [ck EXCEPT ![w] = [@ EXCEPT !.pc = "lockTree", !.job = flt.job]]
    /\ UNCHANGED <<cl, repo, indexVars, blobRefs, callerVars, st, ld, checked,
                   blobRefsMu, panicked, packsVars>>

\* loadTreeWorker: case <-done
LoaderDone(w) ==
    /\ ld[w].pc \in {"recv", "send"}
    /\ done
    /\ ld' = [ld EXCEPT ![w] = [@ EXCEPT !.pc = "exit"]]
    /\ UNCHANGED <<cl, repo, indexVars, blobRefs, callerVars, st, flt, ck, checked,
                   blobRefsMu, panicked, packsVars>>

\* loadTreeWorker: case treeID, ok := <-inCh with !ok (filterTrees closed
\* loaderChan when it returned)
LoaderClosed(w) ==
    /\ ld[w].pc = "recv"
    /\ flt.pc = "returned"
    /\ ld' = [ld EXCEPT ![w] = [@ EXCEPT !.pc = "exit"]]
    /\ UNCHANGED <<cl, repo, indexVars, blobRefs, callerVars, st, flt, ck, checked,
                   blobRefsMu, panicked, packsVars>>

(***************************************************************************)
(* checkTreeWorker and checkTree.                                          *)
(***************************************************************************)

\* checkTree that loses the first content blob of every file node
TreeBlobsTail(tree) ==
    Flatten([i \in 1..Len(tree) |->
                IF tree[i].Type = "file" /\ tree[i].Content # <<>>
                THEN Tail(tree[i].Content) ELSE <<>>])

\* checkTree, first loop: the content blobs of the file nodes
TreeBlobs(tree) ==
    Flatten([i \in 1..Len(tree) |->
                IF tree[i].Type = "file" THEN tree[i].Content ELSE <<>>])

\* checkTree, first loop: one Error for every dir node without subtree.
\* Node indexes count from 0.
TreeNodeErrors(id, tree) ==
    Flatten([i \in 1..Len(tree) |->
                IF tree[i].Type = "dir" /\ tree[i].Subtree = NoID
                THEN <<Error(id, NoID, "node N is dir but has no subtree",
                             i - 1)>>
                ELSE <<>>])

\* a dedup test that is off by one
AlreadyCheckedTwice(refs, id) == Get(refs, id) > 1

\* if c.blobRefs.M[id] > 0 { alreadyChecked = true }
AlreadyChecked(refs, id) == Get(refs, id) > 0

\* checkTree returned errs: with errors the worker turns to sending the
\* TreeError, without it receives again.
AfterCheckTree(c, errs) ==
    IF Len(errs) > 0
    THEN [c EXCEPT !.pc = "send", !.treeError = TreeError(c.job.ID, errs),
                   !.blobs = <<>>, !.errs = <<>>]
    ELSE [c EXCEPT !.pc = "recv", !.blobs = <<>>, !.errs = <<>>]

\* a Lock that does not wait for the mutex to be free
CheckerLockNoWait(w) ==
    /\ ck[w].pc \in {"lockTree", "lockBlob"}
    /\ blobRefsMu' = w
    /\ ck' = [ck EXCEPT ![w] = [@ EXCEPT !.pc = IF @ = "lockTree"
                                                THEN "countTree"
                                                ELSE "countBlob"]]
    /\ UNCHANGED <<cl, repo, indexVars, blobRefs, callerVars, st, flt, ld, checked,
                   panicked, packsVars>>

\* c.blobRefs.Lock() in checkTreeWorker and in checkTree
CheckerLock(w) ==
    /\ ck[w].pc \in {"lockTree", "lockBlob"}
    /\ blobRefsMu = 0
    /\ blobRefsMu' = w
    /\ ck' = [ck EXCEPT ![w] = [@ EXCEPT !.pc = IF @ = "lockTree"
                                                THEN "countTree"
                                                ELSE "countBlob"]]
    /\ UNCHANGED <<cl, repo, indexVars, blobRefs, callerVars, st, flt, ld, checked,
                   panicked, packsVars>>

\* checkTreeWorker, with the mutex held: count the reference to the tree and
\* unlock; a tree seen before is dropped, otherwise checkTree starts and runs
\* its first loop.  The worker does not look at job.error: on the nil Tree
\* of a failed load the loop over tree.Nodes panics.
CheckerCountTree(w) ==
    /\ ck[w].pc = "countTree"
    /\ blobRefsMu = w
    /\ blobRefsMu' = 0
    /\ blobRefs' = Incr(blobRefs, ck[w].job.ID)
    /\ IF AlreadyChecked(blobRefs, ck[w].job.ID)
       THEN /\ ck' = [ck EXCEPT ![w] = [@ EXCEPT !.pc = "recv"]]
            /\ checked' = checked
            /\ panicked' = panicked
       ELSE IF ck[w].job.error
       THEN /\ ck' = ck
            /\ checked' = Incr(checked, ck[w].job.ID)
            /\ panicked' = TRUE
       ELSE /\ checked' = Incr(checked, ck[w].job.ID)
            /\ panicked' = panicked
            /\ LET treeBlobs == TreeBlobs(ck[w].job.Tree)
                   errs == TreeNodeErrors(ck[w].job.ID, ck[w].job.Tree)
               IN ck' = [ck EXCEPT ![w] =
                            IF treeBlobs = <<>>
                            THEN AfterCheckTree(@, errs)
                            ELSE [@ EXCEPT !.pc = "lockBlob",
                                           !.blobs = treeBlobs,
                                           !.errs = errs]]
    /\ UNCHANGED <<cl, repo, indexVars, callerVars, st, flt, ld, packsVars>>

\* checkTree, second loop, with the mutex held: count the reference to the
\* next content blob, unlock, and look the blob up in c.blobs.  An Error
\* holds the address of the loop variable blobID, which after the loop is
\* the last content blob.
CheckerCountBlob(w) ==
    /\ ck[w].pc = "countBlob"
    /\ blobRefsMu = w
    /\ blobRefsMu' = 0
    /\ LET blobID == Head(ck[w].blobs)
           all == TreeBlobs(ck[w].job.Tree)
           errs == IF blobID \in blobs
                   THEN ck[w].errs
                   ELSE Append(ck[w].errs,
                               Error(ck[w].job.ID, all[Len(all)],
                                     "not found in index", -1))
       IN /\ blobRefs' = Incr(blobRefs, blobID)
          /\ ck' = [ck EXCEPT ![w] =
                       IF Tail(ck[w].blobs) = <<>>
                       THEN AfterCheckTree(@, errs)
                       ELSE [@ EXCEPT !.pc = "lockBlob", !.blobs = Tail(@),
                                      !.errs = errs]]
    /\ UNCHANGED <<cl, repo, indexVars, callerVars, st, flt, ld, checked, panicked,
                   packsVars>>

\* a checker that watches done only while it receives
CheckerDoneReceiving(w) ==
    /\ ck[w].pc = "recv"
    /\ done
    /\ ck' = [ck EXCEPT ![w] = [@ EXCEPT !.pc = "exit"]]
    /\ UNCHANGED <<cl, repo, indexVars, blobRefs, callerVars, st, flt, ld, checked,
                   blobRefsMu, panicked, packsVars>>

\* checkTreeWorker: case <-done.  In position "send" the other case of the
\* select is outCh <- treeError on treeErrChan, from which nothing receives.
CheckerDone(w) ==
    /\ ck[w].pc \in {"recv", "send"}
    /\ done
    /\ ck' = [ck EXCEPT ![w] = [@ EXCEPT !.pc = "exit"]]
    /\ UNCHANGED <<cl, repo, indexVars, blobRefs, callerVars, st, flt, ld, checked,
                   blobRefsMu, panicked, packsVars>>

\* checkTreeWorker: case job, ok := <-inCh with !ok (filterTrees closed out
\* when it returned)
CheckerClosed(w) ==
    /\ ck[w].pc = "recv"
    /\ flt.pc = "returned"
    /\ ck' = [ck EXCEPT ![w] = [@ EXCEPT !.pc = "exit"]]
    /\ UNCHANGED <<cl, repo, indexVars, blobRefs, callerVars, st, flt, ld, checked,
                   blobRefsMu, panicked, packsVars>>

\* filterTrees has returned and wg.Wait() is over: Structure returns and the
\* deferred close(errChan) runs.
StructureReturn ==
    /\ st.pc = "filter"
    /\ flt.pc = "returned"
    /\ \A w \in Workers : ld[w].pc = "exit" /\ ck[w].pc = "exit"
    /\ st' = [st EXCEPT !.pc = "returned"]
    /\ errChanClosed' = TRUE
    /\ UNCHANGED <<cl, repo, indexVars, blobRefs, done, errChan,
                   pipelineVars, packsVars>>

\* UnusedBlobs()
UnusedBlobs == {id \in blobs : Get(blobRefs, id) = 0}

(***************************************************************************)
(* The caller.                                                             *)
(***************************************************************************)
StructureRunning == st.pc \notin {"idle", "returned"}
PacksRunning == pk.pc \notin {"idle", "returned"}

\* close(done) while Structure or Packs runs
Cancel ==
    /\ ~done
    /\ StructureRunning \/ PacksRunning
    /\ done' = TRUE
    /\ UNCHANGED <<cl, repo, indexVars, blobRefs, errChan, errChanClosed,
                   structureVars, packsVars>>

\* The steps of an uncancelled Structure run
StructureRun ==
    \/ StructureCall
    \/ \E id \in DOMAIN repo.snapshots : SnapshotWorker(id)
    \/ StructureLoaded
    \/ StructureEmit
    \/ StructureStart
    \/ \E w \in Workers : FilterSendID(w)
    \/ \E w \in Workers : FilterRecvJob(w)
    \/ \E w \in Workers : FilterSendJob(w)
    \/ \E w \in Workers : LoaderClosed(w)
    \/ \E w \in Workers : CheckerLock(w)
    \/ \E w \in Workers : CheckerCountTree(w)
    \/ \E w \in Workers : CheckerCountBlob(w)
    \/ \E w \in Workers : CheckerClosed(w)
    \/ StructureReturn

\* The steps that a closed done channel enables
StructureCancelled ==
    \/ StructureEmitDone
    \/ FilterDone
    \/ \E w \in Workers : LoaderDone(w)
    \/ \E w \in Workers : CheckerDone(w)

\* LoadIndex, then Structure; the caller never closes done.
NextStructure == ~panicked /\ (LoadIndex \/ StructureRun)

SpecStructure == InitStructure /\ [][NextStructure]_vars

\* The subtree T2 of T1 is in no index and cannot be loaded; the snapshot
\* S2 does not load.
RepoTreeGone ==
    Repo("S1" :> Snapshot("T1") @@ "S2" :> BrokenSnapshot,
         "T1" :> <<DirNode("T2"), DirNode("T3"), FileNode(<<"D1">>)>>
           @@ "T3" :> <<FileNode(<<"D1">>)>>,
         OneIndex({Blob("T1", "P1"), Blob("T3", "P1"), Blob("D1", "P1")}),
         {"P1"}, {})

\* The root T2 of S2 is indexed, but the blob does not decode.
RepoRootGone ==
    Repo("S1" :> Snapshot("T1") @@ "S2" :> Snapshot("T2"),
         "T1" :> <<FileNode(<<"D1">>)>>,
         OneIndex({Blob("T1", "P1"), Blob("T2", "P1"), Blob("D1", "P1")}),
         {"P1"}, {})

LoadFailRepos == {RepoTreeGone, RepoRootGone}

InitLoadFail == \E r \in LoadFailRepos : New(r)

\* LoadIndex, then an uncancelled Structure, on repositories with a tree
\* that does not load.
SpecLoadFail == InitLoadFail /\ [][NextStructure]_vars

\* LoadIndex, then Structure; the caller may close done at any time.
CancelRepos ==
    {RepoMissingBlob, RepoBadSnapshots, RepoDirNoSubtree, RepoSelfCycle}

InitCancel == \E r \in CancelRepos : New(r)

NextCancel ==
    ~panicked /\ (LoadIndex \/ StructureRun \/ StructureCancelled \/ Cancel)

SpecCancel == InitCancel /\ [][NextCancel]_vars

(***************************************************************************)
(* Packs and packIDTester.                                                 *)
(***************************************************************************)
InitPacks == \E r \in PacksRepos : New(r)

\* a tester that takes an absent pack for a present one
PackTestErrorOnly(r, id) == IF id \in r.testErr THEN "backend error" ELSE ""

\* packIDTester: repo.Backend().Test(backend.Data, id) and what the worker
\* makes of it: "" when the pack is there, else the cause of the PackError.
PackTestError(r, id) ==
    IF id \in r.testErr THEN "backend error"
    ELSE IF id \notin r.dataFiles THEN "does not exist"
    ELSE ""

\* a listing loop that does not consult seenPacks
IsOrphanAlways(seenPacks, id) == TRUE

\* a listing loop with the test on seenPacks inverted
IsOrphanSeen(seenPacks, id) == id \in seenPacks

\* if _, ok := seenPacks[id]; !ok
IsOrphan(seenPacks, id) == id \notin seenPacks

\* The loop over c.packs is over: close(IDChan) and workerWG.Wait()
AfterFeed(p) == IF p.feed = {} THEN [p EXCEPT !.pc = "wait"] ELSE p

PacksCall ==
    /\ li.pc = "returned"
    /\ pk.pc = "idle"
    /\ pk' = AfterFeed([PacksIdle EXCEPT !.pc = "feed", !.feed = packs])
    /\ tst' = [w \in Workers |-> [TesterIdle EXCEPT !.pc = "recv"]]
    /\ UNCHANGED <<cl, repo, indexVars, blobRefs, callerVars, structureVars,
                   probed, orphanedPacks>>

\* Packs: seenPacks[id] = struct{}{}; IDChan <- id, received by tester w,
\* which tests the pack.
PacksFeed(w, id) ==
    /\ pk.pc = "feed"
    /\ id \in pk.feed
    /\ tst[w].pc = "recv"
    /\ pk' = AfterFeed([pk EXCEPT !.feed = @ \ {id},
                                  !.seenPacks = @ \cup {id}])
    /\ probed' = Incr(probed, id)
    /\ tst' = [tst EXCEPT ![w] =
                  IF PackTestError(repo, id) # ""
                  THEN [pc |-> "send", err |-> id]
                  ELSE @]
    /\ UNCHANGED <<cl, repo, indexVars, blobRefs, callerVars, structureVars,
                   orphanedPacks>>

\* packIDTester: case errChan <- err, received by the caller
TesterSend(w) ==
    /\ tst[w].pc = "send"
    /\ ~errChanClosed
    /\ errChan' = Append(errChan,
                         PackError(tst[w].err, FALSE,
                                   PackTestError(repo, tst[w].err)))
    /\ tst' = [tst EXCEPT ![w] = [pc |-> "recv", err |-> NoID]]
    /\ UNCHANGED <<cl, repo, indexVars, blobRefs, done, errChanClosed,
                   structureVars, pk, probed, orphanedPacks>>

\* packIDTester: case <-done: return
TesterDone(w) ==
    /\ tst[w].pc = "send"
    /\ done
    /\ tst' = [tst EXCEPT ![w] = [@ EXCEPT !.pc = "exit"]]
    /\ UNCHANGED <<cl, repo, indexVars, blobRefs, callerVars, structureVars, pk,
                   probed, orphanedPacks>>

\* packIDTester: the range over inChan ends, IDChan is closed
TesterClosed(w) ==
    /\ tst[w].pc = "recv"
    /\ pk.pc \notin {"idle", "feed"}
    /\ tst' = [tst EXCEPT ![w] = [@ EXCEPT !.pc = "exit"]]
    /\ UNCHANGED <<cl, repo, indexVars, blobRefs, callerVars, structureVars, pk,
                   probed, orphanedPacks>>

\* workerWG.Wait() is over: list the packs of the backend
PacksWait ==
    /\ pk.pc = "wait"
    /\ \A w \in Workers : tst[w].pc = "exit"
    /\ pk' = [pk EXCEPT !.pc = "list", !.list = repo.dataFiles]
    /\ UNCHANGED <<cl, repo, indexVars, blobRefs, callerVars, structureVars, tst,
                   probed, orphanedPacks>>

\* for id := range c.repo.List(backend.Data, done): the next listed pack
PacksList(id) ==
    /\ pk.pc = "list"
    /\ id \in pk.list
    /\ IF IsOrphan(pk.seenPacks, id)
       THEN /\ orphanedPacks' = Append(orphanedPacks, id)
            /\ pk' = [pk EXCEPT !.list = @ \ {id}, !.pc = "orphan",
                                !.orphan = id]
       ELSE /\ orphanedPacks' = orphanedPacks
            /\ pk' = [pk EXCEPT !.list = @ \ {id}]
    /\ UNCHANGED <<cl, repo, indexVars, blobRefs, callerVars, structureVars, tst,
                   probed>>

\* Packs: case errChan <- PackError{Orphaned: true}, received by the caller
PacksEmit ==
    /\ pk.pc = "orphan"
    /\ errChan' = Append(errChan,
                         PackError(pk.orphan, TRUE,
                                   "not referenced in any index"))
    /\ pk' = [pk EXCEPT !.pc = "list", !.orphan = NoID]
    /\ UNCHANGED <<cl, repo, indexVars, blobRefs, done, errChanClosed,
                   structureVars, tst, probed, orphanedPacks>>

\* Packs: case <-done: return
PacksEmitDone ==
    /\ pk.pc = "orphan"
    /\ done
    /\ pk' = [pk EXCEPT !.pc = "returned"]
    /\ errChanClosed' = TRUE
    /\ UNCHANGED <<cl, repo, indexVars, blobRefs, done, errChan, structureVars,
                   tst, probed, orphanedPacks>>

\* The listing ends, because it is exhausted or because done is closed:
\* Packs returns and the deferred close(errChan) runs.
PacksReturn ==
    /\ pk.pc = "list"
    /\ pk.list = {} \/ done
    /\ pk' = [pk EXCEPT !.pc = "returned"]
    /\ errChanClosed' = TRUE
    /\ UNCHANGED <<cl, repo, indexVars, blobRefs, done, errChan, structureVars,
                   tst, probed, orphanedPacks>>

\* OrphanedPacks()
OrphanedPacks == orphanedPacks

PacksRun ==
    \/ PacksCall
    \/ \E w \in Workers : \E id \in packs : PacksFeed(w, id)
    \/ \E w \in Workers : TesterSend(w)
    \/ \E w \in Workers : TesterDone(w)
    \/ \E w \in Workers : TesterClosed(w)
    \/ PacksWait
    \/ \E id \in repo.dataFiles : PacksList(id)
    \/ PacksEmit
    \/ PacksEmitDone
    \/ PacksReturn

\* LoadIndex, then Packs; the caller may close done at any time.
NextPacks == LoadIndex \/ PacksRun \/ Cancel

SpecPacks == InitPacks /\ [][NextPacks]_vars

(***************************************************************************)
(* A whole check: LoadIndex, then Packs, then Structure, each with an      *)
(* error channel of its own, never cancelled.                              *)
(***************************************************************************)
SequenceRepos ==
    {RepoDiamond, RepoIndexOld, RepoEmpty, RepoBadSnapshots, RepoPacks}

InitSequence == \E r \in SequenceRepos : New(r)

\* Packs has returned: the caller makes the errChan for Structure.
CallerNextSink ==
    /\ pk.pc = "returned"
    /\ st.pc = "idle"
    /\ errChanClosed
    /\ errChan' = <<>>
    /\ errChanClosed' = FALSE
    /\ UNCHANGED <<cl, repo, indexVars, blobRefs, done, structureVars,
                   packsVars>>

\* Structure is called with the new errChan
SinkReady == pk.pc = "returned" /\ (st.pc # "idle" \/ ~errChanClosed)

\* The steps of an uncancelled Packs run
PacksUncancelled ==
    \/ PacksCall
    \/ \E w \in Workers : \E id \in packs : PacksFeed(w, id)
    \/ \E w \in Workers : TesterSend(w)
    \/ \E w \in Workers : TesterClosed(w)
    \/ PacksWait
    \/ \E id \in repo.dataFiles : PacksList(id)
    \/ PacksEmit
    \/ PacksReturn

NextSequence ==
    \/ LoadIndex
    \/ PacksUncancelled
    \/ CallerNextSink
    \/ SinkReady /\ StructureRun

SpecSequence == InitSequence /\ [][NextSequence]_vars

(***************************************************************************)
(* LoadIndex, Packs, Structure, which the caller may cancel, and LoadIndex *)
(* once more on the same Checker.                                          *)
(***************************************************************************)

\* RepoMissingBlob with an index entry in the absent pack P2 and the pack P9
\* that is in no index.
RepoRerun ==
    Repo("S1" :> Snapshot("T1"),
         "T1" :> <<FileNode(<<"D1", "DX">>), DirNode("T2")>>
           @@ "T2" :> <<FileNode(<<"D1">>)>>,
         OneIndex({Blob("T1", "P1"), Blob("T2", "P1"), Blob("D1", "P1"),
                   Blob("D2", "P2")}),
         {"P1", "P9"}, {})

RerunRepos == {RepoRerun, RepoBadSnapshots, RepoIndexOld}

InitRerun == \E r \in RerunRepos : New(r)

NextRerun ==
    \/ LoadIndex
    \/ PacksUncancelled
    \/ CallerNextSink
    \/ SinkReady /\ ~panicked /\ (StructureRun \/ StructureCancelled \/ Cancel)
    \/ LoadIndexAgain

SpecRerun == InitRerun /\ [][NextRerun]_vars

(***************************************************************************)
(* Collect (helpers.go) and the goroutine of listIDs that feeds its         *)
(* channel.                                                                *)
(***************************************************************************)

\* Longest sequence of IDs sent to Collect
MaxCollect == 3

CollectIDs == {"A", "B", "C"}

\* The sequences of at most n IDs
RECURSIVE IDSeqs(_)
IDSeqs(n) ==
    IF n = 0 THEN {<<>>}
    ELSE IDSeqs(n - 1)
           \cup {Append(q, id) : q \in {x \in IDSeqs(n - 1) : Len(x) = n - 1},
                                 id \in CollectIDs}

checkerVars ==
    <<repo, packs, blobs, blobRefs, blobRefsMu, indexes, masterIndex,
      repoIndex, orphanedPacks, li, done, errChan, errChanClosed, st, flt,
      ld, ck, checked, panicked, pk, tst, probed>>

\* Collect(listIDs()) for some list of IDs
InitCollect ==
    \E ids \in IDSeqs(MaxCollect) :
        /\ cl = [CollectIdle EXCEPT !.pc = "recv", !.ids = ids]
        /\ repo = RepoEmpty
        /\ packs = {}
        /\ blobs = {}
        /\ blobRefs = EmptyMap
        /\ blobRefsMu = 0
        /\ indexes = EmptyMap
        /\ masterIndex = {}
        /\ repoIndex = {}
        /\ orphanedPacks = <<>>
        /\ li = LoadIndexIdle
        /\ done = FALSE
        /\ errChan = <<>>
        /\ errChanClosed = FALSE
        /\ st = StructureIdle
        /\ flt = FilterIdle
        /\ ld = [w \in Workers |-> LoaderIdle]
        /\ ck = [w \in Workers |-> CheckerIdle]
        /\ checked = EmptyMap
        /\ panicked = FALSE
        /\ pk = PacksIdle
        /\ tst = [w \in Workers |-> TesterIdle]
        /\ probed = EmptyMap

\* a Collect that puts each ID in front
CollectPrepend(list, id) == <<id>> \o list

\* list = append(list, id)
CollectAppend(list, id) == Append(list, id)

\* listIDs: ch <- id, received by the range loop of Collect
CollectRecv ==
    /\ cl.pc = "recv"
    /\ cl.sent < Len(cl.ids)
    /\ cl' = [cl EXCEPT !.sent = @ + 1,
                        !.list = CollectAppend(@, cl.ids[cl.sent + 1])]
    /\ UNCHANGED checkerVars

\* listIDs: close(ch) after the last ID
CollectClose ==
    /\ cl.pc = "recv"
    /\ cl.sent = Len(cl.ids)
    /\ ~cl.closed
    /\ cl' = [cl EXCEPT !.closed = TRUE]
    /\ UNCHANGED checkerVars

\* Collect: the range loop ends on the closed channel; return
CollectReturn ==
    /\ cl.pc = "recv"
    /\ cl.closed
    /\ cl' = [cl EXCEPT !.pc = "returned"]
    /\ UNCHANGED checkerVars

NextCollect == CollectRecv \/ CollectClose \/ CollectReturn

SpecCollect == InitCollect /\ [][NextCollect]_vars

(***************************************************************************)
(* Scheduling.  A goroutine that can take a step eventually takes one; a   *)
(* select with several ready cases picks one at random, so a case that     *)
(* stays ready is eventually taken; sync.Mutex does not starve a waiter.   *)
(* The caller of an uncancelled run keeps receiving from errChan.          *)
(***************************************************************************)
StructureMain ==
    \/ StructureCall
    \/ \E id \in DOMAIN repo.snapshots : SnapshotWorker(id)
    \/ StructureLoaded
    \/ StructureStart
    \/ StructureReturn

FilterSelect ==
    \/ \E w \in Workers : FilterSendID(w)
    \/ \E w \in Workers : FilterRecvJob(w)
    \/ \E w \in Workers : FilterSendJob(w)

PipelineFairness ==
    /\ WF_vars(LoadIndex)
    /\ WF_vars(StructureMain)
    /\ WF_vars(FilterSelect)
    /\ WF_vars(\E w \in Workers : LoaderClosed(w) \/ CheckerClosed(w))
    /\ \A w \in Workers : SF_vars(CheckerLock(w))
    /\ \A w \in Workers : WF_vars(CheckerCountTree(w) \/ CheckerCountBlob(w))

CancelFairness ==
    /\ WF_vars(StructureEmitDone)
    /\ WF_vars(FilterDone)
    /\ \A w \in Workers : WF_vars(LoaderDone(w))
    /\ \A w \in Workers : WF_vars(CheckerDone(w))

FairSpecStructure ==
    SpecStructure /\ PipelineFairness /\ WF_vars(StructureEmit)

FairSpecCancel == SpecCancel /\ PipelineFairness /\ CancelFairness

\* Packs: the coordinator and the testers run; nothing is assumed of the
\* caller, who may stop receiving from errChan.
PacksMain ==
    \/ PacksCall
    \/ \E w \in Workers : \E id \in packs : PacksFeed(w, id)
    \/ PacksWait
    \/ \E id \in repo.dataFiles : PacksList(id)
    \/ PacksReturn

FairSpecPacks ==
    /\ SpecPacks
    /\ WF_vars(LoadIndex)
    /\ WF_vars(PacksMain)
    /\ WF_vars(PacksEmitDone)
    /\ \A w \in Workers : WF_vars(TesterDone(w))
    /\ \A w \in Workers : WF_vars(TesterClosed(w))

\* The whole check under fair scheduling, with a caller that keeps
\* receiving from errChan.
FairSpecSequence ==
    /\ SpecSequence
    /\ WF_vars(LoadIndex)
    /\ WF_vars(PacksMain)
    /\ WF_vars(PacksEmit)
    /\ \A w \in Workers : WF_vars(TesterSend(w))
    /\ \A w \in Workers : WF_vars(TesterClosed(w))
    /\ WF_vars(CallerNextSink)
    /\ WF_vars(SinkReady /\ StructureMain)
    /\ WF_vars(StructureEmit)
    /\ WF_vars(FilterSelect)
    /\ WF_vars(\E w \in Workers : LoaderClosed(w) \/ CheckerClosed(w))
    /\ \A w \in Workers : SF_vars(CheckerLock(w))
    /\ \A w \in Workers : WF_vars(CheckerCountTree(w) \/ CheckerCountBlob(w))

(***************************************************************************)
(* What a repository contains, for stating the properties.                 *)
(***************************************************************************)
TreeIDs == {"T1", "T2", "T3", "T4"}

\* The root trees of the snapshots that load and have a tree
Roots(r) ==
    {r.snapshots[s].Tree : s \in {x \in DOMAIN r.snapshots :
        r.snapshots[x].loads /\ r.snapshots[x].Tree # NoID}}

\* The positions of the nodes of tree t
Nodes(r, t) == IF t \in DOMAIN r.trees THEN 1..Len(r.trees[t]) ELSE {}

Children(r, t) ==
    {r.trees[t][i].Subtree :
        i \in {j \in Nodes(r, t) : /\ r.trees[t][j].Type = "dir"
                                   /\ r.trees[t][j].Subtree # NoID}}

\* The content references of tree t: node, position in Content
ContentRefs(r, t) ==
    {nj \in Nodes(r, t) \X (1..2) :
        /\ r.trees[t][nj[1]].Type = "file"
        /\ nj[2] <= Len(r.trees[t][nj[1]].Content)}

ContentOf(r, t) ==
    {r.trees[t][nj[1]].Content[nj[2]] : nj \in ContentRefs(r, t)}

\* The dir nodes of tree t that have no subtree
DirsWithoutSubtree(r, t) ==
    {i \in Nodes(r, t) : /\ r.trees[t][i].Type = "dir"
                         /\ r.trees[t][i].Subtree = NoID}

RECURSIVE Closure(_, _)
Closure(r, S) ==
    LET n == S \cup UNION {Children(r, t) : t \in S}
    IN IF n = S THEN S ELSE Closure(r, n)

ReachableTrees(r) == Closure(r, Roots(r))

Cyclic(r) ==
    \E t \in ReachableTrees(r) : t \in Closure(r, Children(r, t))

AllTreesLoad(r) ==
    \A t \in ReachableTrees(r) :
        /\ t \in DOMAIN r.trees
        /\ \E i \in DOMAIN r.indexFiles : \E b \in r.indexFiles[i] : b.ID = t

IndexedBlobs(r) ==
    UNION {{b.ID : b \in r.indexFiles[i]} : i \in DOMAIN r.indexFiles}

\* The content blobs of the file nodes of the reachable trees
ReachableContent(r) == UNION {ContentOf(r, t) : t \in ReachableTrees(r)}

\* Number of snapshots with root t
RootCount(r, t) ==
    Cardinality({s \in DOMAIN r.snapshots :
                    r.snapshots[s].loads /\ r.snapshots[s].Tree = t})

\* Number of dir nodes with subtree t in the reachable trees
DirCount(r, t) ==
    Cardinality({pn \in ReachableTrees(r) \X (1..3) :
                    /\ pn[2] \in Nodes(r, pn[1])
                    /\ r.trees[pn[1]][pn[2]].Type = "dir"
                    /\ r.trees[pn[1]][pn[2]].Subtree = t})

\* Number of occurrences of b in the content lists of the reachable trees
ContentCount(r, b) ==
    Cardinality({tnj \in ReachableTrees(r) \X (1..3) \X (1..2) :
                    /\ <<tnj[2], tnj[3]>> \in ContentRefs(r, tnj[1])
                    /\ r.trees[tnj[1]][tnj[2]].Content[tnj[3]] = b})

\* Every worker that was started has returned
WorkersStopped == \A w \in Workers : ld[w].pc \in {"idle", "exit"}
                                      /\ ck[w].pc \in {"idle", "exit"}

WorkersTerminated == \A w \in Workers : ld[w].pc = "exit" /\ ck[w].pc = "exit"

StructureReturned == st.pc = "returned" /\ errChanClosed

(***************************************************************************)
(* Properties of Structure.                                                *)
(***************************************************************************)

\* C1: on an acyclic repository whose trees all load, an uncancelled
\* Structure whose caller keeps receiving eventually closes errChan and
\* returns with every loader and checker terminated, also when checkTree
\* finds errors.
C1_StructureTerminates ==
    (~Cyclic(repo) /\ AllTreesLoad(repo))
        => <>(StructureReturned /\ WorkersTerminated)

\* C2: for every tree for which checkTree returns errors, exactly one
\* TreeError with the tree's ID reaches the caller on errChan, with one
\* Error per dir node without subtree and per content blob that is not in
\* blobs.
TreeErrorsReceived(t) ==
    {i \in 1..Len(errChan) :
        errChan[i].type = "TreeError" /\ errChan[i].ID = t}

C2_TreeErrorDelivered ==
    \A t \in TreeIDs :
        (\E w \in Workers : ck[w].pc = "send" /\ ck[w].treeError.ID = t)
            ~> (/\ Cardinality(TreeErrorsReceived(t)) = 1
                /\ \A i \in TreeErrorsReceived(t) :
                      Len(errChan[i].Errors) =
                          Cardinality(DirsWithoutSubtree(repo, t))
                          + Cardinality({nj \in ContentRefs(repo, t) :
                                repo.trees[t][nj[1]].Content[nj[2]]
                                    \notin blobs}))

\* C3: after LoadIndex and a completed, uncancelled Structure, UnusedBlobs
\* returns exactly the indexed blobs that are neither a reachable tree nor a
\* content blob of a reachable tree.
C3_UnusedBlobs ==
    (li.pc = "returned" /\ StructureReturned)
        => UnusedBlobs = IndexedBlobs(repo)
                           \ (ReachableTrees(repo) \cup ReachableContent(repo))

C3_Witness ==
    /\ StructureReturned
    /\ UnusedBlobs # {}
    /\ UnusedBlobs # blobs
    /\ ReachableContent(repo) # {}

\* C4: checkTree runs at most once for each tree ID, and once the run has
\* completed it has run exactly once for every reachable tree.
C4_CheckTreeOnce ==
    /\ \A t \in DOMAIN checked : checked[t] <= 1
    /\ StructureReturned =>
          \A t \in ReachableTrees(repo) : Get(checked, t) = 1

\* a tree that came to the checkers twice was checked once
C4_Witness ==
    /\ StructureReturned
    /\ \E t \in ReachableTrees(repo) :
          Get(blobRefs, t) >= 2 /\ Get(checked, t) = 1

\* C5: after a completed run every reference is counted exactly once: a
\* tree's counter is the number of snapshots with that root plus the number
\* of dir nodes of reachable trees that name it, a data blob's counter is
\* the number of its occurrences in the content of the reachable trees.
C5_ReferencesCountedOnce ==
    StructureReturned =>
        \A id \in DOMAIN blobRefs :
            blobRefs[id] = IF id \in DOMAIN repo.trees
                           THEN RootCount(repo, id) + DirCount(repo, id)
                           ELSE ContentCount(repo, id)

\* C6: when the reachable tree graph has a cycle, an uncancelled Structure
\* still terminates and closes errChan.
C6_CycleTerminates == Cyclic(repo) => <>StructureReturned

\* C7: once done is closed during Structure, Structure returns and closes
\* errChan.
C7_CancelTerminates ==
    (done /\ StructureRunning) ~> (StructureReturned /\ WorkersStopped)

\* Structure has returned after a cancellation that found a checker with
\* an undelivered TreeError
C7_Witness ==
    /\ done
    /\ StructureReturned
    /\ \E w \in Workers : ck[w].pc = "exit" /\ ck[w].treeError # <<>>

(***************************************************************************)
(* Properties of Packs.                                                    *)
(***************************************************************************)
PackIDs == Range(PackNames)

PacksReturned == pk.pc = "returned" /\ errChanClosed

TestersTerminated == \A w \in Workers : tst[w].pc = "exit"

\* The positions in errChan of the PackErrors for pack id
PackErrorsReceived(id, orphaned) ==
    {i \in 1..Len(errChan) :
        /\ errChan[i].type = "PackError"
        /\ errChan[i].ID = id
        /\ errChan[i].Orphaned = orphaned}

\* C8: once done is closed during Packs, also when the caller stops
\* receiving, the coordinator and all pack testers return and errChan is
\* closed.
C8_PacksCancelTerminates ==
    (done /\ PacksRunning) ~> (PacksReturned /\ TestersTerminated)

\* C9: no pack is tested twice; after an uncancelled run every pack of packs
\* was tested once, each pack whose test failed or found it absent has
\* exactly one PackError with orphaned=false and the cause, and a pack that
\* is present has none.
C9_PacksProbedOnce ==
    /\ \A id \in DOMAIN probed : probed[id] <= 1
    /\ (PacksReturned /\ ~done) =>
          \A id \in packs :
              /\ Get(probed, id) = 1
              /\ Cardinality(PackErrorsReceived(id, FALSE)) =
                     IF id \in repo.testErr \/ id \notin repo.dataFiles
                     THEN 1 ELSE 0
              /\ \A i \in PackErrorsReceived(id, FALSE) :
                     errChan[i].Err = IF id \in repo.testErr
                                      THEN "backend error"
                                      ELSE "does not exist"

\* a run with a present pack, an absent pack and a pack whose test failed
C9_Witness ==
    /\ PacksReturned
    /\ ~done
    /\ \E a, b, c \in packs :
          /\ a \in repo.testErr
          /\ b \notin repo.testErr /\ b \notin repo.dataFiles
          /\ c \notin repo.testErr /\ c \in repo.dataFiles

\* C10: every ID in orphanedPacks is in the backend's listing and not in
\* packs; an orphan's PackError is only sent once all testers have
\* terminated; after an uncancelled run orphanedPacks holds each listed pack
\* that is in no index exactly once, with exactly one orphaned PackError
\* each.
C10_OrphanedPacks ==
    /\ \A i \in 1..Len(OrphanedPacks) :
          OrphanedPacks[i] \notin packs /\ OrphanedPacks[i] \in repo.dataFiles
    /\ (\E id \in PackIDs : PackErrorsReceived(id, TRUE) # {})
          => TestersTerminated
    /\ (PacksReturned /\ ~done) =>
          /\ Range(OrphanedPacks) = repo.dataFiles \ packs
          /\ Len(OrphanedPacks) = Cardinality(repo.dataFiles \ packs)
          /\ \A id \in PackIDs :
                Cardinality(PackErrorsReceived(id, TRUE)) =
                    IF id \in repo.dataFiles \ packs THEN 1 ELSE 0

\* an uncancelled run that found two orphans next to referenced packs
C10_Witness ==
    /\ PacksReturned
    /\ ~done
    /\ Len(OrphanedPacks) = 2
    /\ packs \cap repo.dataFiles # {}

(***************************************************************************)
(* Properties of LoadIndex.                                                *)
(***************************************************************************)
AllIndexEntries(r) == UNION {r.indexFiles[i] : i \in DOMAIN r.indexFiles}

LoadIndexSucceeded == li.pc = "returned" /\ li.perr = ""

\* C12: when LoadIndex returns success on a fresh Checker, whatever the
\* order in which the indexes were delivered, packs is the set of the pack
\* IDs and blobs the set of the blob IDs of all entries of all index files,
\* blobRefs has exactly the keys of blobs, all with value 0, indexes has one
\* entry per index file, and the installed master index is the merge of all
\* of them.
C12_LoadIndexResult ==
    (LoadIndexSucceeded /\ li.runs = 1) =>
        /\ packs = {b.PackID : b \in AllIndexEntries(repo)}
        /\ blobs = {b.ID : b \in AllIndexEntries(repo)}
        /\ DOMAIN blobRefs = blobs
        /\ \A id \in DOMAIN blobRefs : blobRefs[id] = 0
        /\ DOMAIN indexes = DOMAIN repo.indexFiles
        /\ \A i \in DOMAIN indexes : indexes[i] = repo.indexFiles[i]
        /\ masterIndex = AllIndexEntries(repo)
        /\ repoIndex = masterIndex

\* three indexes with common packs and blobs, one of them converted
C12_Witness ==
    /\ LoadIndexSucceeded
    /\ Cardinality(DOMAIN indexes) = 3
    /\ Cardinality(blobs) = 5
    /\ li.converted # EmptyMap

\* The worker for an index file with these properties fails
WorkerFails(f) ==
    \/ f.format = "broken"
    \/ f.format = "old" /\ (~f.convert \/ f.reload # "new")

\* C13: LoadIndex terminates, and when it returns no worker is left at its
\* select on indexCh and every index file that was recorded is one of the
\* repository; it returns an error exactly when the worker of a dispatched
\* file failed (the first load fails otherwise than with the old format, the
\* conversion fails, or the reload after it fails), and without an error
\* every listed file was dispatched and recorded; ConvertIndex is called at
\* most once per file and only for an old-format file, which is never
\* recorded under its old ID; once a worker has failed no worker stays at
\* its select.
C13_LoadIndexTerminates ==
    /\ <>(li.pc = "returned")
    /\ [](li.pc = "returned" =>
            /\ li.running = {} /\ li.sending = EmptyMap
            /\ DOMAIN indexes \subseteq DOMAIN repo.indexFiles
            /\ (li.perr # "") <=>
                   \E id \in li.listed \ li.todo :
                       WorkerFails(IndexFault(repo, id))
            /\ li.perr = "" =>
                   /\ li.todo = {}
                   /\ \A id \in li.listed :
                         IF IndexFault(repo, id).format = "old"
                         THEN NewID(id) \in DOMAIN indexes
                         ELSE id \in DOMAIN indexes)
    /\ [](\A id \in IndexIDs :
            /\ Get(li.converted, id) <= 1
            /\ Get(li.converted, id) = 1 =>
                   IndexFault(repo, id).format = "old"
            /\ IndexFault(repo, id).format = "old" => id \notin DOMAIN indexes)
    /\ (li.cancel ~> (li.sending = EmptyMap))

\* LoadIndex has returned an error after one index was recorded and another
\* worker gave up its delivery
C13_Witness ==
    /\ li.pc = "returned"
    /\ li.perr # ""
    /\ indexes # EmptyMap
    /\ Cardinality(DOMAIN indexes) + Cardinality(li.failed)
           + Cardinality(li.todo) < Cardinality(li.listed)

(***************************************************************************)
(* Properties of a whole check.                                            *)
(***************************************************************************)

\* A repository without faults: every index file loads, every pack of an
\* index is on the backend and can be tested, every pack on the backend is
\* in an index, every snapshot loads and has a root, the tree graph is
\* acyclic, every reachable tree loads, every dir node has a subtree and
\* every content blob is indexed.
FaultFree(r) ==
    /\ \A i \in DOMAIN r.indexFiles : ~WorkerFails(IndexFault(r, i))
    /\ \A b \in AllIndexEntries(r) :
          b.PackID \in r.dataFiles /\ b.PackID \notin r.testErr
    /\ r.dataFiles \subseteq {b.PackID : b \in AllIndexEntries(r)}
    /\ \A x \in DOMAIN r.snapshots :
          r.snapshots[x].loads /\ r.snapshots[x].Tree # NoID
    /\ ~Cyclic(r)
    /\ AllTreesLoad(r)
    /\ \A t \in ReachableTrees(r) : DirsWithoutSubtree(r, t) = {}
    /\ ReachableContent(r) \subseteq IndexedBlobs(r)

EmptyRepository(r) ==
    /\ DOMAIN r.indexFiles = {}
    /\ DOMAIN r.snapshots = {}
    /\ r.dataFiles = {}

\* C11: on a repository without faults LoadIndex returns nil, Packs and
\* Structure send no error and each returns with its errChan closed; on the
\* empty repository UnusedBlobs and OrphanedPacks are empty as well.
C11_FaultFreeRun ==
    FaultFree(repo) =>
        /\ [](/\ errChan = <<>>
              /\ li.pc = "returned" => li.perr = ""
              /\ (EmptyRepository(repo) /\ StructureReturned) =>
                     UnusedBlobs = {} /\ OrphanedPacks = <<>>)
        /\ <>(PacksReturned /\ st.pc = "idle")
        /\ <>(StructureReturned /\ WorkersTerminated)

\* the whole check has run on a repository without faults that has packs,
\* shared trees and an unused blob
C11_Witness ==
    /\ FaultFree(repo)
    /\ PacksReturned
    /\ StructureReturned
    /\ Cardinality(DOMAIN probed) >= 1
    /\ Cardinality(DOMAIN checked) >= 2
    /\ UnusedBlobs # {}

\* C14: a LoadIndex leaves the same packs, blobs and blobRefs (the keys of
\* blobs, all with value 0) whether it is the first on a fresh Checker or a
\* second one on the same Checker after Packs and Structure have run.
C14_LoadIndexIdempotent ==
    LoadIndexSucceeded =>
        /\ li.first = <<{b.PackID : b \in AllIndexEntries(repo)},
                        {b.ID : b \in AllIndexEntries(repo)},
                        [id \in {b.ID : b \in AllIndexEntries(repo)} |-> 0]>>
        /\ li.runs = 2 => <<packs, blobs, blobRefs>> = li.first

(***************************************************************************)
(* Properties of Collect.                                                  *)
(***************************************************************************)

\* C15: Collect returns the IDs it received from its channel in the order
\* in which they were sent, as many as were sent, and it returns only when
\* the channel is closed; until then its list is what was sent so far.
C15_CollectInOrder ==
    /\ Len(cl.list) = cl.sent
    /\ \A i \in 1..Len(cl.list) : cl.list[i] = cl.ids[i]
    /\ cl.pc = "returned" => cl.closed /\ cl.list = cl.ids

\* Collect has returned three IDs, the first two different
C15_Witness ==
    /\ cl.pc = "returned"
    /\ Len(cl.list) = 3
    /\ cl.list[1] # cl.list[2]

(***************************************************************************)
(* More properties of Structure.                                           *)
(***************************************************************************)

\* The reachable trees that LoadTree cannot load
UnloadableTrees(r) ==
    {t \in ReachableTrees(r) : t \notin DOMAIN r.trees \/ t \notin IndexedBlobs(r)}

\* The positions in errChan of the errors that name tree t
ErrorsNaming(t) == {i \in 1..Len(errChan) : errChan[i].ID = t}

\* C16: a tree that fails to load does not abort the run: the process goes
\* on, and when Structure has returned and closed errChan the caller has
\* received an error for the tree, and every tree that loads was checked.
C16_LoadFailureNotFatal ==
    /\ ~panicked
    /\ StructureReturned =>
          /\ \A t \in UnloadableTrees(repo) : ErrorsNaming(t) # {}
          /\ \A t \in ReachableTrees(repo) \ UnloadableTrees(repo) :
                Get(checked, t) = 1

\* The snapshots that do not load or have no root tree
BadSnapshots(r) ==
    {x \in DOMAIN r.snapshots :
        ~r.snapshots[x].loads \/ r.snapshots[x].Tree = NoID}

\* The positions in errChan of the plain errors for snapshot x
SnapshotErrorsReceived(x) ==
    {i \in 1..Len(errChan) : errChan[i].type = "error" /\ errChan[i].ID = x}

\* Number of times t occurs in the sequence q
Occurrences(q, t) == Cardinality({i \in 1..Len(q) : q[i] = t})

\* C17: in an uncancelled Structure, by the time a tree is loaded the
\* caller has received exactly one plain error for each snapshot that does
\* not load or has no root, and none for the others; the backlog that the
\* pipeline starts with holds the roots of all other snapshots, and in a
\* completed run each of them was checked.
C17_SnapshotErrors ==
    /\ (\E w \in Workers : ld[w].pc # "idle") => st.pc \in {"filter", "returned"}
    /\ st.pc \in {"filter", "returned"} =>
          /\ \A x \in DOMAIN repo.snapshots :
                Cardinality(SnapshotErrorsReceived(x)) =
                    IF x \in BadSnapshots(repo) THEN 1 ELSE 0
          /\ Len(st.trees) =
                 Cardinality(DOMAIN repo.snapshots \ BadSnapshots(repo))
          /\ \A t \in TreeIDs : Occurrences(st.trees, t) = RootCount(repo, t)
    /\ StructureReturned =>
          \A t \in Roots(repo) : Get(checked, t) = 1

\* a completed run with a snapshot that does not load, a snapshot without
\* root and a snapshot whose root was checked
C17_Witness ==
    /\ StructureReturned
    /\ \E x, y \in BadSnapshots(repo) :
          repo.snapshots[x].loads /\ ~repo.snapshots[y].loads
    /\ \E t \in Roots(repo) : Get(checked, t) = 1

\* C18: from the return of LoadIndex on, during and after Structure, every
\* key of blobRefs is in blobs, and no value of blobRefs ever decreases.
C18_BlobRefsKeys ==
    /\ [](li.pc = "returned" => DOMAIN blobRefs \subseteq blobs)
    /\ [][li.pc = "returned" =>
            \A id \in DOMAIN blobRefs :
                id \in DOMAIN blobRefs' /\ blobRefs'[id] >= blobRefs[id]]_vars

RECURSIVE SumOver(_, _)
SumOver(f, S) ==
    IF S = {} THEN 0
    ELSE LET x == CHOOSE y \in S : TRUE
         IN f[x] + SumOver(f, S \ {x})

\* Number of jobs that the pipeline makes of tree t on an acyclic
\* repository: t itself and, for each of its dir nodes with a subtree, the
\* jobs of the subtree.
RECURSIVE JobsOf(_, _)
JobsOf(r, t) ==
    LET dirs == {i \in Nodes(r, t) : /\ r.trees[t][i].Type = "dir"
                                     /\ r.trees[t][i].Subtree # NoID}
    IN 1 + SumOver([i \in dirs |-> JobsOf(r, r.trees[t][i].Subtree)], dirs)

\* Number of jobs that reach the checkers in a completed run
JobsReceived(r) ==
    LET good == DOMAIN r.snapshots \ BadSnapshots(r)
    IN SumOver([x \in good |-> JobsOf(r, r.snapshots[x].Tree)], good)

\* Number of content blob occurrences in the trees that checkTree ran on
BlobsProcessed(r) ==
    SumOver([t \in DOMAIN checked |->
                checked[t] * Cardinality(ContentRefs(r, t))], DOMAIN checked)

MutexHeld(w) == ck[w].pc \in {"countTree", "countBlob"}

\* C19: a checker is at a read-modify-write of blobRefs exactly while it
\* holds the mutex, so at most one checker is, and the holder is not at a
\* channel operation or in a backend call; no increment is lost: after a
\* completed, uncancelled run the values of blobRefs add up to the number of
\* jobs the checkers received plus the number of content blob occurrences
\* that checkTree processed.
C19_MutexAndSum ==
    /\ blobRefsMu \in {0} \cup Workers
    /\ \A w \in Workers : MutexHeld(w) <=> blobRefsMu = w
    /\ (/\ StructureReturned
        /\ \A id \in DOMAIN blobRefs : blobRefs[id] < MaxRefCount) =>
          SumOver(blobRefs, DOMAIN blobRefs)
              = JobsReceived(repo) + BlobsProcessed(repo)

\* a checker holds the mutex while another one waits for it
C19_Witness ==
    \E w, v \in Workers :
        /\ w # v
        /\ blobRefsMu = w
        /\ MutexHeld(w)
        /\ ck[v].pc \in {"lockTree", "lockBlob"}

\* Number of loaded trees in the pipeline: held by a loader, by the filter,
\* or by a checker
InFlight ==
    Cardinality({w \in Workers : ld[w].pc = "send"})
      + (IF flt.outCh THEN 1 ELSE 0)
      + Cardinality({w \in Workers :
            ck[w].pc \in {"lockTree", "countTree", "lockBlob", "countBlob"}})

\* C20: while the filter holds a loaded job for the checkers it does not
\* receive another one; outstandingLoadTreeJobs is the number of loaders
\* with an undelivered job and stays within 0..defaultParallelism; there
\* are at most 2 * defaultParallelism + 1 loaded trees in flight.
C20_BoundedInFlight ==
    /\ flt.outCh => ~flt.inCh
    /\ flt.outstandingLoadTreeJobs \in 0..defaultParallelism
    /\ flt.outstandingLoadTreeJobs =
           Cardinality({w \in Workers : ld[w].pc = "send"})
    /\ InFlight <= 2 * defaultParallelism + 1

\* the filter holds a job while a loader has the next one and a checker is
\* busy
C20_Witness ==
    /\ flt.outCh
    /\ flt.outstandingLoadTreeJobs >= 1
    /\ InFlight >= 3

====
